---- MODULE Spec2Model ----
(***************************************************************************)
(* A model of csim (src/__init__.py): the waveform functions (wave, value, *)
(* clip, crosses), the spec store (_read_specs, read_spec, write_spec),    *)
(* the spec table (specs) and the helpers _wildcard_expand and unit_adj.   *)
(*                                                                         *)
(* Conventions of the model:                                               *)
(*  - a Python str is a sequence of one-character strings, "mV" being      *)
(*    <<"m", "V">>; corner labels are opaque and stay TLA+ strings, with   *)
(*    "" the "use the configured one" default of the source;               *)
(*  - a Python number is an exact decimal [m |-> mantissa, e |-> exponent] *)
(*    standing for m * 10^e, kept normalised (no trailing zero in m), so   *)
(*    that 10**15 and 10**-12 fit; float rounding error is not modelled;   *)
(*  - an interpolated value is an exact fraction [n |-> num, d |-> den];   *)
(*  - a raised exception is an outcome named after the exception.          *)
(***************************************************************************)
EXTENDS Integers, Sequences, FiniteSets, TLC

VARIABLES
    config,     \* the module's config dict: corners, typical_corner, current_corner
    files,      \* results/<corner>/specs: corner -> the lines <<name, text>> of the file
    specfile,   \* <project>/specs, the limit definitions, as _strip_file returns it
    w,          \* the outcome of the last wave(xs, ys)
    ret,        \* the last call: its operation, arguments and result
    written,    \* history: the value last given to write_spec per corner and name
    nwrites     \* history: the number of write_spec calls so far

vars == <<config, files, specfile, w, ret, written, nwrites>>

(***************************************************************************)
(* Bounds of the model.                                                    *)
(***************************************************************************)
MaxUnits == 2      \* longest units string given to unit_adj
MaxName == 3       \* longest name given to _wildcard_expand
MaxLen == 3        \* most samples given to wave
MaxWrites == 3     \* most write_spec calls in one run
MaxLines == 2      \* most lines of a limit definition file with malformed lines

(***************************************************************************)
(* Strings.                                                                *)
(***************************************************************************)
Min(a, b) == IF a <= b THEN a ELSE b
Abs(n) == IF n < 0 THEN -n ELSE n

\* s.find(c): the 0-based index of the first c in s, -1 when there is none
Find(s, c) ==
    IF \E i \in 1..Len(s) : s[i] = c
    THEN (CHOOSE i \in 1..Len(s) : s[i] = c /\ \A j \in 1..(i-1) : s[j] # c) - 1
    ELSE -1

\* s.split(sep) for a one-character sep
RECURSIVE Split(_, _)
Split(s, sep) ==
    LET i == Find(s, sep)
    IN  IF i = -1 THEN <<s>>
        ELSE <<SubSeq(s, 1, i)>> \o Split(SubSeq(s, i + 2, Len(s)), sep)

\* sep.join(fields)
RECURSIVE Join(_, _)
Join(fields, sep) ==
    IF Len(fields) = 0 THEN <<>>
    ELSE IF Len(fields) = 1 THEN fields[1]
    ELSE fields[1] \o <<sep>> \o Join(Tail(fields), sep)

StartsWith(x, p) == Len(p) <= Len(x) /\ SubSeq(x, 1, Len(p)) = p
EndsWith(x, s) == Len(s) <= Len(x) /\ SubSeq(x, Len(x) - Len(s) + 1, Len(x)) = s
InSeq(x, s) == \E i \in 1..Len(s) : s[i] = x

\* every sequence over S of length lo..hi
SeqsOf(S, lo, hi) == UNION {[1..n -> S] : n \in lo..hi}

(***************************************************************************)
(* Numbers: exact decimals m * 10^e.                                       *)
(***************************************************************************)
RECURSIVE Pow10(_)
Pow10(k) == IF k <= 0 THEN 1 ELSE 10 * Pow10(k - 1)

RECURSIVE NumDigits(_)
NumDigits(n) == IF Abs(n) < 10 THEN 1 ELSE 1 + NumDigits(Abs(n) \div 10)

RECURSIVE Norm(_)
Norm(d) ==
    IF d.m = 0 THEN [m |-> 0, e |-> 0]
    ELSE IF d.m % 10 = 0 THEN Norm([m |-> d.m \div 10, e |-> d.e + 1])
    ELSE d

Dec(m, e) == Norm([m |-> m, e |-> e])
Int2Dec(n) == Dec(n, 0)
DecMul(a, b) == Dec(a.m * b.m, a.e + b.e)

\* a < b for positive normalised decimals: by order of magnitude, then by mantissa
MagLess(a, b) ==
    LET oa == NumDigits(a.m) + a.e
        ob == NumDigits(b.m) + b.e
        le == Min(a.e, b.e)
    IN  IF oa # ob THEN oa < ob
        ELSE a.m * Pow10(a.e - le) < b.m * Pow10(b.e - le)

DecNeg(a) == [m |-> -a.m, e |-> a.e]

\* Python's a < b on numbers
DecLess(a, b) ==
    IF a.m < 0 /\ b.m < 0 THEN MagLess(DecNeg(b), DecNeg(a))
    ELSE IF a.m > 0 /\ b.m > 0 THEN MagLess(a, b)
    ELSE a.m < b.m

(***************************************************************************)
(* unit_adj (src/__init__.py 95-106).                                      *)
(***************************************************************************)
UnitPrefixes == <<"f", "p", "n", "u", "m", " ", "k", "M", "G", "T">>

\* a prefix table read upside down
UnitPower_SignFlipped(uindex) == Dec(1, 3 * (uindex - 5))
\* 10**(-3*(uindex-5)): an int for uindex <= 5, a float below
UnitPower(uindex) == Dec(1, -3 * (uindex - 5))

\* units[0] of an empty units string raises IndexError
unit_adj_raises(units) == Len(units) = 0

unit_adj(number, units) ==
    LET uindex == Find(UnitPrefixes, units[1])
        m == IF uindex > -1 THEN UnitPower(uindex)
             ELSE IF units = <<"%">> THEN Int2Dec(100)
             ELSE Int2Dec(1)
    IN  DecMul(number, m)

(***************************************************************************)
(* _wildcard_expand (src/__init__.py 47-64).                               *)
(***************************************************************************)
_wildcard_expand(name, possibles, must) ==
    LET lname == Split(name, "*")
    IN  IF Len(lname) = 1
        THEN IF (~must) \/ (must /\ InSeq(lname[1], possibles))
             THEN lname
             ELSE <<>>
        ELSE IF Len(lname) = 2
        THEN LET retvals == SelectSeq(possibles, LAMBDA x : StartsWith(x, lname[1]))
             IN  SelectSeq(retvals, LAMBDA x : EndsWith(x, lname[2]))
        ELSE <<>>

(***************************************************************************)
(* Numbers as text: float(text) and str(number).                           *)
(***************************************************************************)
DigitChars == <<"0", "1", "2", "3", "4", "5", "6", "7", "8", "9">>
IsDigit(c) == Find(DigitChars, c) > -1
AllDigits(s) == \A i \in 1..Len(s) : IsDigit(s[i])

RECURSIVE DigitsVal(_)
DigitsVal(s) ==
    IF Len(s) = 0 THEN 0
    ELSE 10 * DigitsVal(SubSeq(s, 1, Len(s) - 1)) + Find(DigitChars, s[Len(s)])

RECURSIVE IntStr(_)
IntStr(n) ==
    IF n < 10 THEN <<DigitChars[n + 1]>>
    ELSE IntStr(n \div 10) \o <<DigitChars[(n % 10) + 1]>>

Unsigned(text) == IF Len(text) > 0 /\ text[1] = "-" THEN Tail(text) ELSE text

\* whether float(text) returns: an optional sign, digits, an optional point and
\* digits (the texts of the model hold no exponent, blank, "inf" or "nan")
float_ok(text) ==
    LET parts == Split(Unsigned(text), ".")
    IN  /\ Len(parts) \in {1, 2}
        /\ \A i \in 1..Len(parts) : AllDigits(parts[i])
        /\ \E i \in 1..Len(parts) : Len(parts[i]) > 0

\* float(text), where float_ok(text); ValueError otherwise
float(text) ==
    LET parts == Split(Unsigned(text), ".")
        frac == IF Len(parts) = 2 THEN parts[2] ELSE <<>>
        mag == DigitsVal(parts[1] \o frac)
    IN  Dec(IF Unsigned(text) # text THEN -mag ELSE mag, -Len(frac))

\* str(x) of a float x = d: repr's shortest form, "5.0", "2.5", "-0.5"
\* (for 1e-4 <= |x| < 1e16, which the values of the model are)
str_float(d) ==
    LET a == Abs(d.m)
        sign == IF d.m < 0 THEN <<"-">> ELSE <<>>
    IN  IF d.e >= 0 THEN sign \o IntStr(a * Pow10(d.e)) \o <<".", "0">>
        ELSE LET p == Pow10(-d.e)
                 fr == IntStr(a % p)
             IN  sign \o IntStr(a \div p) \o <<".">>
                      \o [i \in 1..(-d.e - Len(fr)) |-> "0"] \o fr

\* str(x) of an int x = d
str_int(d) ==
    (IF d.m < 0 THEN <<"-">> ELSE <<>>) \o IntStr(Abs(d.m) * Pow10(d.e))

\* a Python number: an int or a float
PyInt(n) == [isint |-> TRUE, d |-> Int2Dec(n)]
PyFloat(d) == [isint |-> FALSE, d |-> d]
str(value) == IF value.isint THEN str_int(value.d) ELSE str_float(value.d)

(***************************************************************************)
(* The spec store (src/__init__.py 158-207).  A dict is the sequence of    *)
(* its items [key, val] in insertion order; a file that does not exist     *)
(* reads as the empty dict, like a file with no line.                      *)
(***************************************************************************)
_set_corner(corner) == IF corner = "" THEN config.current_corner ELSE corner

DictHas(dct, key) == \E i \in 1..Len(dct) : dct[i].key = key
DictGet(dct, key) == dct[CHOOSE i \in 1..Len(dct) : dct[i].key = key].val

\* dct[key] = val
DictSet(dct, key, val) ==
    IF DictHas(dct, key)
    THEN [i \in 1..Len(dct) |->
             IF dct[i].key = key THEN [key |-> key, val |-> val] ELSE dct[i]]
    ELSE Append(dct, [key |-> key, val |-> val])

RECURSIVE ReadLines(_, _)
ReadLines(lines, retval) ==
    IF Len(lines) = 0 THEN retval
    ELSE ReadLines(Tail(lines),
                   DictSet(retval, lines[1][1], PyFloat(float(lines[1][2]))))

\* float(value) of a line raises ValueError
_read_specs_raises(corner) ==
    \E i \in 1..Len(files[_set_corner(corner)]) :
        ~float_ok(files[_set_corner(corner)][i][2])

_read_specs(corner) == ReadLines(files[_set_corner(corner)], <<>>)

None == [found |-> FALSE, d |-> Int2Dec(0)]
Some(d) == [found |-> TRUE, d |-> d]

read_spec(name, corner) ==
    IF _read_specs_raises(corner) \/ ~DictHas(_read_specs(corner), name) THEN None
    ELSE Some(DictGet(_read_specs(corner), name).d)

\* the lines write_spec writes for the dict specs
DictLines(specs) == [i \in 1..Len(specs) |-> <<specs[i].key, str(specs[i].val)>>]

\* a write_spec that forgets what the file held
write_spec_rewrites_only_new(value, name, corner) ==
    <<<<name, str(value)>>>>
\* the new content of the corner's file
write_spec(value, name, corner) ==
    DictLines(DictSet(_read_specs(corner), name, value))

(***************************************************************************)
(* specs (src/__init__.py 325-403).  The returned table is the sequence of *)
(* its rows; a cell is None when blank and Some(number) when '%.4g' wrote  *)
(* a number into it.                                                       *)
(***************************************************************************)
\* '%.4g' % x: x rounded to 4 significant digits (half to even)
fmt4g(d) ==
    LET k == NumDigits(d.m) - 4
        p == Pow10(k)
        q == Abs(d.m) \div p
        r == Abs(d.m) % p
        up == IF 2 * r > p \/ (2 * r = p /\ q % 2 = 1) THEN 1 ELSE 0
    IN  IF k <= 0 THEN d
        ELSE Dec((IF d.m < 0 THEN -1 ELSE 1) * (q + up), d.e + k)

\* tables[corner].get(name, '')
TableGet(corner, name) ==
    IF DictHas(_read_specs(corner), name)
    THEN Some(DictGet(_read_specs(corner), name).d)
    ELSE None

\* a pass of the loop that takes a missing value for zero
scan_step_missing_is_zero(acc, value, units, ttype) ==
    LET v == IF value.found THEN value ELSE Some(Int2Dec(0))
    IN  [smin |-> IF ~acc.smin.found \/ DecLess(v.d, acc.smin.d) THEN v ELSE acc.smin,
         smax |-> IF ~acc.smax.found \/ DecLess(acc.smax.d, v.d) THEN v ELSE acc.smax,
         num_corners |-> acc.num_corners + 1,
         line |-> IF ttype = "all" /\ ~unit_adj_raises(units)
                  THEN Append(acc.line, Some(fmt4g(unit_adj(v.d, units))))
                  ELSE acc.line,
         raised |-> IF ttype = "all" /\ unit_adj_raises(units)
                    THEN "IndexError" ELSE ""]
\* one pass of the loop over the corners (362-372) for the value of a corner;
\* acc holds smin, smax, num_corners and line
scan_step(acc, value, units, ttype) ==
    IF value.found
    THEN [smin |-> IF ~acc.smin.found \/ DecLess(value.d, acc.smin.d)
                   THEN value ELSE acc.smin,
          smax |-> IF ~acc.smax.found \/ DecLess(acc.smax.d, value.d)
                   THEN value ELSE acc.smax,
          num_corners |-> acc.num_corners + 1,
          line |-> IF ttype = "all" /\ ~unit_adj_raises(units)
                   THEN Append(acc.line, Some(fmt4g(unit_adj(value.d, units))))
                   ELSE acc.line,
          raised |-> IF ttype = "all" /\ unit_adj_raises(units)
                     THEN "IndexError" ELSE ""]
    ELSE [acc EXCEPT !.line = IF ttype = "all" THEN Append(@, None) ELSE @]

\* the loop over the corners (361-372)
RECURSIVE scan_corners(_, _, _, _, _)
scan_corners(corners, name, units, ttype, acc) ==
    IF Len(corners) = 0 \/ acc.raised # "" THEN acc
    ELSE scan_corners(Tail(corners), name, units, ttype,
                      scan_step(acc, TableGet(corners[1], name), units, ttype))

\* limit checks with a third flag, 'P', for a row whose checked limits hold
pass_fail_with_pass(ds_min, ds_typ, ds_max, smin, smax) ==
    LET lt == Len(ds_typ) > 0 /\ ds_typ[1] = "<"
        typ1 == IF lt THEN Tail(ds_typ) ELSE ds_typ
        gt == Len(typ1) > 0 /\ typ1[1] = ">"
        typ2 == IF gt THEN Tail(typ1) ELSE typ1
        failed == \/ Len(ds_min) > 0 /\ smin.found /\ DecLess(smin.d, float(ds_min))
                  \/ Len(ds_max) > 0 /\ smax.found /\ DecLess(float(ds_max), smax.d)
                  \/ lt /\ smax.found /\ DecLess(float(typ1), smax.d)
                  \/ gt /\ smin.found /\ DecLess(smin.d, float(typ2))
        checked == smin.found /\ (Len(ds_min) > 0 \/ Len(ds_max) > 0 \/ lt \/ gt)
    IN  [raised |-> "", ds_typ |-> typ2,
         res |-> IF failed THEN "F" ELSE IF checked THEN "P" ELSE "-"]
\* limit checks that compare a '<' typical limit with smin
pass_fail_typ_on_min(ds_min, ds_typ, ds_max, smin, smax) ==
    LET lt == Len(ds_typ) > 0 /\ ds_typ[1] = "<"
        typ1 == IF lt THEN Tail(ds_typ) ELSE ds_typ
        gt == Len(typ1) > 0 /\ typ1[1] = ">"
        typ2 == IF gt THEN Tail(typ1) ELSE typ1
        failed == \/ Len(ds_min) > 0 /\ smin.found /\ DecLess(smin.d, float(ds_min))
                  \/ Len(ds_max) > 0 /\ smax.found /\ DecLess(float(ds_max), smax.d)
                  \/ lt /\ smin.found /\ DecLess(float(typ1), smin.d)
                  \/ gt /\ smin.found /\ DecLess(smin.d, float(typ2))
    IN  [raised |-> "", ds_typ |-> typ2, res |-> IF failed THEN "F" ELSE "-"]
\* the limit checks (377-389) on the scaled smin and smax: the flag, ds_typ
\* without its comparator, and the ValueError of a float() that fails
pass_fail(ds_min, ds_typ, ds_max, smin, smax) ==
    LET min_checked == Len(ds_min) > 0 /\ smin.found
        max_checked == Len(ds_max) > 0 /\ smax.found
        lt == Len(ds_typ) > 0 /\ ds_typ[1] = "<"
        typ1 == IF lt THEN Tail(ds_typ) ELSE ds_typ
        lt_checked == lt /\ smax.found
        gt == Len(typ1) > 0 /\ typ1[1] = ">"
        typ2 == IF gt THEN Tail(typ1) ELSE typ1
        gt_checked == gt /\ smin.found
        raised == \/ min_checked /\ ~float_ok(ds_min)
                  \/ max_checked /\ ~float_ok(ds_max)
                  \/ lt_checked /\ ~float_ok(typ1)
                  \/ gt_checked /\ ~float_ok(typ2)
        failed == \/ min_checked /\ DecLess(smin.d, float(ds_min))
                  \/ max_checked /\ DecLess(float(ds_max), smax.d)
                  \/ lt_checked /\ DecLess(float(typ1), smax.d)
                  \/ gt_checked /\ DecLess(smin.d, float(typ2))
    IN  IF raised THEN [raised |-> "ValueError", ds_typ |-> ds_typ, res |-> "-"]
        ELSE [raised |-> "", ds_typ |-> typ2, res |-> IF failed THEN "F" ELSE "-"]

TitleRow(line) ==
    [istitle |-> TRUE, title |-> line, ds_min |-> <<>>, ds_typ |-> <<>>,
     ds_max |-> <<>>, cols |-> <<>>, units |-> <<>>, res |-> ""]

Raise(exc) == [raised |-> exc, warned |-> FALSE, rows |-> <<>>]
Skip(warned) == [raised |-> "", warned |-> warned, rows |-> <<>>]

\* unit_adj on smin, smax or styp when it is not ''
scaled(x, units) == IF x.found THEN Some(unit_adj(x.d, units)) ELSE x

\* the row of a data line (390-402), its limits checked
specs_row(f, ttype, styp, acc, pf) ==
    IF pf.raised # "" THEN Raise(pf.raised)
    ELSE [raised |-> "", warned |-> FALSE,
          rows |-> <<[istitle |-> FALSE, title |-> f[2], ds_min |-> f[3],
                      ds_typ |-> pf.ds_typ, ds_max |-> f[5],
                      cols |-> IF ttype = "mtm"
                               THEN <<IF acc.smin.found /\ acc.num_corners > 1
                                      THEN Some(fmt4g(unit_adj(acc.smin.d, f[6])))
                                      ELSE None,
                                      IF styp.found
                                      THEN Some(fmt4g(unit_adj(styp.d, f[6])))
                                      ELSE None,
                                      IF acc.smax.found /\ acc.num_corners > 1
                                      THEN Some(fmt4g(unit_adj(acc.smax.d, f[6])))
                                      ELSE None>>
                               ELSE acc.line,
                      units |-> f[6], res |-> pf.res]>>]

\* a data line after the loop over the corners (373-389)
specs_scanned(f, ttype, styp, acc) ==
    IF acc.raised # "" THEN Raise(acc.raised)
    ELSE IF acc.smin.found /\ unit_adj_raises(f[6]) THEN Raise("IndexError")
    ELSE specs_row(f, ttype, styp, acc,
                   pass_fail(f[3], f[4], f[5],
                             scaled(acc.smin, f[6]), scaled(acc.smax, f[6])))

\* a data line of six fields f with a name (356-372)
specs_data(f, ttype, corners, styp) ==
    specs_scanned(f, ttype, styp,
                  scan_corners(corners, f[1], f[6], ttype,
                               [smin |-> styp, smax |-> styp, num_corners |-> 0,
                                line |-> <<>>, raised |-> ""]))

\* a line that is no title, split at its commas (350-356)
specs_fields(f, ttype, corners, typical_corner) ==
    IF Len(f) # 6 THEN Skip(TRUE)
    ELSE IF Len(f[1]) = 0 THEN Skip(FALSE)
    ELSE IF ~InSeq(typical_corner, corners) THEN Raise("KeyError")
    ELSE specs_data(f, ttype, corners, TableGet(typical_corner, f[1]))

\* the body of the loop over the lines (347-402) for one line: the exception
\* raised, whether the line was reported, the rows added to the table
specs_line(line, ttype, corners, typical_corner) ==
    IF StartsWith(line, <<"*">>)
    THEN [raised |-> "", warned |-> FALSE, rows |-> <<TitleRow(line)>>]
    ELSE specs_fields(Split(line, ","), ttype, corners, typical_corner)

\* one pass of the loop over the lines
specs_step(acc, line, one) ==
    IF one.raised # "" THEN [acc EXCEPT !.raised = one.raised]
    ELSE [raised |-> "",
          rows |-> acc.rows \o one.rows,
          warnings |-> IF one.warned THEN Append(acc.warnings, line)
                       ELSE acc.warnings]

RECURSIVE specs_lines(_, _, _, _, _)
specs_lines(lines, ttype, corners, typical_corner, acc) ==
    IF Len(lines) = 0 \/ acc.raised # "" THEN acc
    ELSE specs_lines(Tail(lines), ttype, corners, typical_corner,
                     specs_step(acc, lines[1],
                                specs_line(lines[1], ttype, corners, typical_corner)))

\* specs(ttype) with corners = '': the corners of config
specs(ttype) ==
    LET corners == config.corners
        empty == [raised |-> "", rows |-> <<>>, warnings |-> <<>>]
    IN  IF \E i \in 1..Len(corners) : _read_specs_raises(corners[i])
        THEN [empty EXCEPT !.raised = "ValueError"]
        ELSE IF config.typical_corner = "" /\ Len(corners) = 0
        THEN [empty EXCEPT !.raised = "IndexError"]
        ELSE specs_lines(specfile, ttype, corners,
                         IF config.typical_corner = "" THEN corners[1]
                         ELSE config.typical_corner,
                         empty)

(***************************************************************************)
(* Waveforms (src/__init__.py 110-154).  A waveform is the sequence of the *)
(* rows <<x, y>> of its array, x and y exact fractions.                    *)
(***************************************************************************)
RECURSIVE GCD(_, _)
GCD(a, b) == IF b = 0 THEN a ELSE GCD(b, a % b)

Rat(n, d) ==
    LET g == GCD(Abs(n), Abs(d))
        sgn == IF d < 0 THEN -1 ELSE 1
    IN  [n |-> (sgn * n) \div g, d |-> (sgn * d) \div g]
R(k) == [n |-> k, d |-> 1]
RatSub(a, b) == Rat(a.n * b.d - b.n * a.d, a.d * b.d)
RatAdd(a, b) == Rat(a.n * b.d + b.n * a.d, a.d * b.d)
RatMul(a, b) == Rat(a.n * b.n, a.d * b.d)
RatDiv(a, b) == Rat(a.n * b.d, a.d * b.n)
RatLess(a, b) == a.n * b.d < b.n * a.d

Col(rows, k) == [i \in 1..Len(rows) |-> rows[i][k]]
Reverse(s) == [i \in 1..Len(s) |-> s[Len(s) + 1 - i]]

\* what a call of wave leaves: an array of rows, an array of objects, an exception
Array(rows) == [kind |-> "array", rows |-> rows, objs |-> <<>>]
Objects(objs) == [kind |-> "object", rows |-> <<>>, objs |-> objs]
Raised(exc) == [kind |-> exc, rows |-> <<>>, objs |-> <<>>]

\* a wave that checks its arguments
wave_checks_shape(xs, ys) ==
    IF Len(xs) # Len(ys) \/ Len(xs) < 2 THEN {Raised("ShapeError")}
    ELSE {Array([i \in 1..Len(xs) |-> <<xs[i], ys[i]>>])}
\* np.transpose((xs, ys)): the outcomes a numpy can produce.  Sequences of one
\* length give the array of the pairs, of any length; sequences of different
\* lengths are ragged, which numpy refuses with ValueError (1.24 and later) or
\* turns into a 1-D array of the two objects (before)
wave(xs, ys) ==
    IF Len(xs) = Len(ys)
    THEN {Array([i \in 1..Len(xs) |-> <<xs[i], ys[i]>>])}
    ELSE {Raised("ValueError"), Objects(<<xs, ys>>)}

\* np.interp(x, xp, fp) for increasing xp: the end values outside, the sample
\* on a sample, the straight line between two samples
interp(x, xp, fp) ==
    LET n == Len(xp)
    IN  IF RatLess(x, xp[1]) THEN fp[1]
        ELSE IF ~RatLess(x, xp[n]) THEN fp[n]
        ELSE LET j == CHOOSE j \in 1..(n - 1) :
                          ~RatLess(x, xp[j]) /\ RatLess(x, xp[j + 1])
                 slope == RatDiv(RatSub(fp[j + 1], fp[j]), RatSub(xp[j + 1], xp[j]))
             IN  RatAdd(RatMul(slope, RatSub(x, xp[j])), fp[j])

\* w[1, 0] of an array of fewer than 2 rows raises IndexError
value_raises(rows) == Len(rows) < 2

value(rows, x) ==
    IF RatLess(rows[1][1], rows[2][1])
    THEN interp(x, Col(rows, 1), Col(rows, 2))
    ELSE interp(x, Col(Reverse(rows), 1), Col(Reverse(rows), 2))

\* the rows clip keeps: np.nonzero((w[:,0] > x1) & (w[:,0] < x2))
keeps(rows, x1, x2) ==
    SelectSeq(rows, LAMBDA r : RatLess(x1, r[1]) /\ RatLess(r[1], x2))

\* wave((x1, xs, x2), (y1, ys, y2)) as clip calls it, xs and ys the arrays of
\* the kept samples: a scalar, an array and a scalar are ragged whatever the
\* array holds.  numpy refuses them with ValueError, or builds the 3 x 2 array
\* of objects whose middle row holds the two arrays (objs: the first row, the
\* two arrays of the middle row, the last row); an old numpy turns an array of
\* exactly one element into that element, and the rows are numbers
wave_ragged(x1, y1, kept, x2, y2) ==
    {Raised("ValueError"),
     Objects(<<<<x1, y1>>, Col(kept, 1), Col(kept, 2), <<x2, y2>>>>)}
    \cup (IF Len(kept) = 1 THEN {Array(<<<<x1, y1>>, kept[1], <<x2, y2>>>>)} ELSE {})

\* the outcomes of clip(w, x1, x2)
clip(rows, x1, x2) ==
    IF value_raises(rows) THEN {Raised("IndexError")}
    ELSE wave_ragged(x1, value(rows, x1), keeps(rows, x1, x2), x2, value(rows, x2))

\* a comparison that counts a sample on the threshold as above
greater_or_equal(rows, y) ==
    [i \in 1..Len(rows) |-> IF ~RatLess(rows[i][2], y) THEN 1 ELSE 0]
\* (w[:,1] > y).astype(np.int)
greater(rows, y) == [i \in 1..Len(rows) |-> IF RatLess(y, rows[i][2]) THEN 1 ELSE 0]

\* the indices np.nonzero keeps: where greater steps as edge asks
edge_indices(g, edge) ==
    SelectSeq([i \in 1..(Len(g) - 1) |-> i],
              LAMBDA i : IF 2 * edge > 1 THEN g[i + 1] - g[i] > 0
                         ELSE IF 2 * edge < -1 THEN g[i + 1] - g[i] < 0
                         ELSE Abs(g[i + 1] - g[i]) > 0)

\* value(twave[index:index+2], y) for each index
crossings(twave, indices, y) ==
    [k \in 1..Len(indices) |-> value(SubSeq(twave, indices[k], indices[k] + 1), y)]

crosses(rows, y, edge) ==
    crossings([i \in 1..Len(rows) |-> <<rows[i][2], rows[i][1]>>],
              edge_indices(greater(rows, y), edge), y)

(***************************************************************************)
(* The state: config as the module sets it (src/__init__.py 39), no file.  *)
(***************************************************************************)
InitConfig == [corners |-> <<>>, typical_corner |-> "", current_corner |-> ""]
NoCall == [op |-> "none", done |-> TRUE]

\* the directories of results/: "" is results/ itself, where a spec file lands
\* while current_corner is still ""
AllCorners == {"", "c1", "c2", "c3"}
StoreNames == {<<"n">>, <<"k">>}
StoreValues == {PyInt(-3), PyFloat(Dec(25, -1))}

NoFiles == [c \in AllCorners |-> <<>>]
NothingWritten == [c \in AllCorners |-> [n \in StoreNames |-> None]]
NoWave == [kind |-> "none", rows |-> <<>>, objs |-> <<>>]

(***************************************************************************)
(* The helpers as operations.  A call of a pure function starts as the     *)
(* pending call ret, with its arguments, and the operation completes it.   *)
(***************************************************************************)
UnitAlphabet == {"f", "p", "n", "u", "m", " ", "k", "M", "G", "T", "%", "V"}
UnitStrings == SeqsOf(UnitAlphabet, 0, MaxUnits)
UnitNumbers == {Int2Dec(5), Int2Dec(-3), Dec(25, -1)}

NameStrings == SeqsOf({"a", "b", "*"}, 0, MaxName)
Candidates == SeqsOf({"a", "b"}, 0, 2)
CandidateLists == SeqsOf(Candidates, 0, 2)

Pending(op) == ret.op = op /\ ~ret.done
Returned(op) == ret.op = op /\ ret.done

UnitAdj ==
    /\ Pending("unit_adj")
    /\ ret' = [ret EXCEPT !.done = TRUE,
                          !.raised = IF unit_adj_raises(ret.units) THEN "IndexError" ELSE "",
                          !.val = IF unit_adj_raises(ret.units) THEN Int2Dec(0)
                                  ELSE unit_adj(ret.number, ret.units)]
    /\ UNCHANGED <<config, files, specfile, w, written, nwrites>>

WildcardExpand ==
    /\ Pending("_wildcard_expand")
    /\ ret' = [ret EXCEPT !.done = TRUE,
                          !.out = _wildcard_expand(ret.name, ret.possibles, ret.must)]
    /\ UNCHANGED <<config, files, specfile, w, written, nwrites>>

InitUtil ==
    /\ config = InitConfig
    /\ files = NoFiles
    /\ specfile = <<>>
    /\ w = NoWave
    /\ written = NothingWritten
    /\ nwrites = 0
    /\ \/ \E number \in UnitNumbers, units \in UnitStrings :
             ret = [op |-> "unit_adj", done |-> FALSE, number |-> number,
                    units |-> units, raised |-> "", val |-> Int2Dec(0)]
       \/ \E name \in NameStrings, possibles \in CandidateLists, must \in BOOLEAN :
             ret = [op |-> "_wildcard_expand", done |-> FALSE, name |-> name,
                    possibles |-> possibles, must |-> must, out |-> <<>>]

NextUtil == UnitAdj \/ WildcardExpand

SpecUtil == InitUtil /\ [][NextUtil]_vars

(***************************************************************************)
(* The spec store as operations.                                           *)
(***************************************************************************)
\* script() moves to the corner it simulates (src/__init__.py 248)
SetCurrentCorner(corner) ==
    /\ config' = [config EXCEPT !.current_corner = corner]
    /\ UNCHANGED <<files, specfile, w, ret, written, nwrites>>

WriteSpec(val, name, corner) ==
    /\ nwrites < MaxWrites
    /\ IF _read_specs_raises(corner)
       THEN /\ ret' = [op |-> "write_spec", done |-> TRUE, raised |-> "ValueError"]
            /\ UNCHANGED <<files, written>>
       ELSE /\ ret' = [op |-> "write_spec", done |-> TRUE, raised |-> ""]
            /\ files' = [files EXCEPT ![_set_corner(corner)] =
                                          write_spec(val, name, corner)]
            /\ written' = [written EXCEPT ![_set_corner(corner)][name] = Some(val.d)]
    /\ nwrites' = nwrites + 1
    /\ UNCHANGED <<config, specfile, w>>

ReadSpec(name, corner) ==
    /\ ret' = [op |-> "read_spec", done |-> TRUE, name |-> name, corner |-> corner,
               out |-> read_spec(name, corner)]
    /\ UNCHANGED <<config, files, specfile, w, written, nwrites>>

InitStore ==
    /\ config = InitConfig
    /\ files = NoFiles
    /\ specfile = <<>>
    /\ w = NoWave
    /\ ret = NoCall
    /\ written = NothingWritten
    /\ nwrites = 0

NextStore ==
    \/ \E corner \in {"c1", "c2"} : SetCurrentCorner(corner)
    \/ \E val \in StoreValues, name \in StoreNames, corner \in {"", "c1", "c2"} :
           WriteSpec(val, name, corner)
    \/ \E name \in StoreNames, corner \in {"", "c1", "c2"} : ReadSpec(name, corner)

SpecStore == InitStore /\ [][NextStore]_vars

(***************************************************************************)
(* The spec table as an operation: specs(ttype) over a project whose limit *)
(* definitions, corners and recorded values are drawn at the start.        *)
(***************************************************************************)
RowName == <<"n">>
LowerLimits == {<<>>, <<"0">>, <<"6">>}
TypLimits == {<<>>, <<"5">>, <<"<", "5">>, <<">", "5">>}
UpperLimits == {<<>>, <<"1", "0">>}
RowUnits == {<<"V">>, <<"m", "V">>, <<"k", "V">>}

\* the well-formed data lines, such as n,T,0,,10,V
RowLines ==
    {Join(<<RowName, <<"T">>, lo, ty, up, un>>, ",") :
        lo \in LowerLimits, ty \in TypLimits, up \in UpperLimits, un \in RowUnits}

\* lines of every kind: a title, data lines, lines with too few and too many
\* fields, with a limit that is no number, without units, without a name
FileLines ==
    {<<"*", "S">>,
     Join(<<RowName, <<"T">>, <<"0">>, <<>>, <<"1", "0">>, <<"V">>>>, ","),
     Join(<<RowName, <<"U">>, <<>>, <<"<", "5">>, <<>>, <<"m", "V">>>>, ","),
     Join(<<RowName, <<"T">>>>, ","),
     Join(<<RowName, <<"T">>, <<"0">>, <<>>, <<"1", "0">>, <<"V">>, <<"x">>>>, ","),
     Join(<<RowName, <<"T">>, <<"x">>, <<>>, <<"1", "0">>, <<"V">>>>, ","),
     Join(<<RowName, <<"T">>, <<>>, <<"<", "x">>, <<>>, <<"V">>>>, ","),
     Join(<<RowName, <<"T">>, <<"0">>, <<>>, <<"1", "0">>, <<>>>>, ","),
     Join(<<<<>>, <<"T">>, <<"0">>, <<>>, <<"1", "0">>, <<"V">>>>, ",")}

TableCorners == {"c1", "c2", "c3"}

\* the lists of distinct corners a project may request
CornerLists ==
    {cs \in SeqsOf(TableCorners, 0, Cardinality(TableCorners)) :
        \A i, j \in 1..Len(cs) : cs[i] = cs[j] => i = j}

\* a corner's spec file: nothing recorded for the row's name, or one value
CornerFiles == {<<>>, <<<<RowName, <<"5">>>>>>, <<<<RowName, <<"1", "2">>>>>>}

\* the third corner records nothing or the one value
TableFiles ==
    {[c \in AllCorners |-> IF c = "" THEN <<>> ELSE f[c]] :
        f \in {g \in [TableCorners -> CornerFiles] : g["c3"] # <<<<RowName, <<"5">>>>>>}}

PendingSpecs(ttype) ==
    [op |-> "specs", done |-> FALSE, ttype |-> ttype,
     out |-> [raised |-> "", rows |-> <<>>, warnings |-> <<>>]]

Specs ==
    /\ Pending("specs")
    /\ ret' = [ret EXCEPT !.done = TRUE, !.out = specs(ret.ttype)]
    /\ UNCHANGED <<config, files, specfile, w, written, nwrites>>

\* a project with one well-formed data line
InitRow ==
    /\ \E cs \in CornerLists, typ \in {"", "c1"} :
          config = [corners |-> cs, typical_corner |-> typ, current_corner |-> ""]
    /\ files \in TableFiles
    /\ \E line \in RowLines : specfile = <<line>>

\* a project with lines of every kind
InitFile ==
    /\ \E cs \in {<<>>, <<"c1", "c2">>}, typ \in {"", "c1"} :
          config = [corners |-> cs, typical_corner |-> typ, current_corner |-> ""]
    /\ \E f1 \in CornerFiles :
          files = [c \in AllCorners |->
                      IF c = "c1" THEN f1
                      ELSE IF c = "c2" THEN <<<<RowName, <<"1", "2">>>>>> ELSE <<>>]
    /\ specfile \in SeqsOf(FileLines, 1, MaxLines)

InitTable ==
    /\ InitRow \/ InitFile
    /\ \E ttype \in {"mtm", "all"} : ret = PendingSpecs(ttype)
    /\ w = NoWave
    /\ written = NothingWritten
    /\ nwrites = 0

NextTable == Specs

SpecTable == InitTable /\ [][NextTable]_vars

(***************************************************************************)
(* The waveform functions as operations: a waveform is built by wave, then *)
(* queried.                                                                *)
(***************************************************************************)
XVals == 0..4
YVals == {-10, 0, 10}
Thresholds == {0, 5}

\* sample positions: strictly increasing or strictly decreasing
MonotonicXs ==
    {xs \in SeqsOf(XVals, 0, MaxLen) :
        \/ \A i \in 1..(Len(xs) - 1) : xs[i] < xs[i + 1]
        \/ \A i \in 1..(Len(xs) - 1) : xs[i] > xs[i + 1]}

Rats(s) == [i \in 1..Len(s) |-> R(s[i])]

Wave ==
    /\ Pending("wave")
    /\ w' \in wave(ret.xs, ret.ys)
    /\ ret' = [ret EXCEPT !.done = TRUE]
    /\ UNCHANGED <<config, files, specfile, written, nwrites>>

Built == Returned("wave") /\ w.kind = "array"

Value(x) ==
    /\ Built
    /\ ret' = [op |-> "value", done |-> TRUE, x |-> x,
               raised |-> IF value_raises(w.rows) THEN "IndexError" ELSE "",
               out |-> IF value_raises(w.rows) THEN R(0) ELSE value(w.rows, x)]
    /\ UNCHANGED <<config, files, specfile, w, written, nwrites>>

Clip(x1, x2) ==
    /\ Built
    /\ \E out \in clip(w.rows, x1, x2) :
          ret' = [op |-> "clip", done |-> TRUE, x1 |-> x1, x2 |-> x2, out |-> out]
    /\ UNCHANGED <<config, files, specfile, w, written, nwrites>>

Crosses(y, edge) ==
    /\ Built
    /\ ret' = [op |-> "crosses", done |-> TRUE, y |-> y, edge |-> edge,
               out |-> crosses(w.rows, y, edge)]
    /\ UNCHANGED <<config, files, specfile, w, written, nwrites>>

InitWave ==
    /\ config = InitConfig
    /\ files = NoFiles
    /\ specfile = <<>>
    /\ w = NoWave
    /\ written = NothingWritten
    /\ nwrites = 0
    /\ \E xs \in MonotonicXs, ys \in SeqsOf(YVals, 0, MaxLen) :
          ret = [op |-> "wave", done |-> FALSE, xs |-> Rats(xs), ys |-> Rats(ys)]

NextWave ==
    \/ Wave
    \/ \E x \in XVals : Value(R(x))
    \/ \E x1, x2 \in XVals : Clip(R(x1), R(x2))
    \/ \E y \in Thresholds, edge \in {-1, 0, 1} : Crosses(R(y), edge)

SpecWave == InitWave /\ [][NextWave]_vars

(***************************************************************************)
(* The claims about waveforms, under SpecWave.                             *)
(***************************************************************************)
Sgn(n) == IF n > 0 THEN 1 ELSE IF n < 0 THEN -1 ELSE 0

\* the sign of y_i - y at sample i
SignAt(rows, i, y) == Sgn(RatSub(rows[i][2], y).n)

\* the number of sign changes of y_i - y across consecutive samples
SignChanges(rows, y) ==
    Cardinality({i \in 1..(Len(rows) - 1) : SignAt(rows, i, y) # SignAt(rows, i + 1, y)})

\* the consecutive samples of which exactly one is above y
AboveChanges(rows, y) ==
    Cardinality({i \in 1..(Len(rows) - 1) :
                    (SignAt(rows, i, y) = 1) # (SignAt(rows, i + 1, y) = 1)})

ExampleWave == <<<<R(0), R(0)>>, <<R(1), R(10)>>, <<R(2), R(-10)>>>>

\* C3 as stated: crosses(w, y, 0) returns as many x as y_i - y changes sign
\* across consecutive samples, samples on the threshold included.
C3_CountsSignChanges ==
    (Returned("crosses") /\ ret.edge = 0) => Len(ret.out) = SignChanges(w.rows, ret.y)

\* C3: crosses(w, y, 0) returns as many x as there are consecutive samples of
\* which exactly one is strictly above y, a sample on the threshold counting
\* as not above; that is the number of sign changes of y_i - y when no sample
\* is on the threshold, and 2 for w = [(0,0),(1,10),(2,-10)] and y = 0.
C3_CountsStrictlyAbove ==
    (Returned("crosses") /\ ret.edge = 0) =>
        /\ Len(ret.out) = AboveChanges(w.rows, ret.y)
        /\ (\A i \in 1..Len(w.rows) : w.rows[i][2] # ret.y)
               => Len(ret.out) = SignChanges(w.rows, ret.y)
        /\ (w.rows = ExampleWave /\ ret.y = R(0)) => Len(ret.out) = 2

C3_Witness ==
    /\ Returned("crosses") /\ ret.edge = 0 /\ ret.y = R(0)
    /\ w.rows = <<<<R(0), R(-10)>>, <<R(1), R(0)>>, <<R(2), R(-10)>>>>
    /\ Len(ret.out) = 0 /\ SignChanges(w.rows, ret.y) = 2

Ascending(rows) == \A i \in 1..(Len(rows) - 1) : RatLess(rows[i][1], rows[i + 1][1])
Descending(rows) == \A i \in 1..(Len(rows) - 1) : RatLess(rows[i + 1][1], rows[i][1])
Between(x, a, b) == (RatLess(a, x) /\ RatLess(x, b)) \/ (RatLess(b, x) /\ RatLess(x, a))
InDomain(rows, x) == ~Between(rows[1][1], x, rows[Len(rows)][1]) \/ x = rows[1][1]

\* C6: for a monotonic waveform and x1 before x2 in its direction, both in its
\* domain, clip returns the waveform of (x1, value(w, x1)), the samples of w
\* strictly between x1 and x2 in their order, and (x2, value(w, x2)).
C6_ClipKeepsInside ==
    (/\ Returned("clip")
     /\ Len(w.rows) >= 2
     /\ InDomain(w.rows, ret.x1) /\ InDomain(w.rows, ret.x2)
     /\ \/ Ascending(w.rows) /\ RatLess(ret.x1, ret.x2)
        \/ Descending(w.rows) /\ RatLess(ret.x2, ret.x1))
    => /\ ret.out.kind = "array"
       /\ ret.out.rows =
             <<<<ret.x1, value(w.rows, ret.x1)>>>>
             \o SelectSeq(w.rows, LAMBDA r : Between(r[1], ret.x1, ret.x2))
             \o <<<<ret.x2, value(w.rows, ret.x2)>>>>

(***************************************************************************)
(* The claims about the helpers, under SpecUtil.                           *)
(***************************************************************************)
\* the factor of a first character, as the prefix table reads
PrefixFactor(c) ==
    CASE c = "f" -> Dec(1, 15) [] c = "p" -> Dec(1, 12) [] c = "n" -> Dec(1, 9)
      [] c = "u" -> Dec(1, 6)  [] c = "m" -> Dec(1, 3)  [] c = "k" -> Dec(1, -3)
      [] c = "M" -> Dec(1, -6) [] c = "G" -> Dec(1, -9) [] c = "T" -> Dec(1, -12)
      [] OTHER -> Int2Dec(1)

\* C9 as stated: unit_adj multiplies by the factor of the first character of
\* units, which is 100 for a first character '%'.
C9_PercentByFirstChar ==
    (Returned("unit_adj") /\ ret.raised = "") =>
        ret.val = DecMul(ret.number, IF ret.units[1] = "%" THEN Int2Dec(100)
                                     ELSE PrefixFactor(ret.units[1]))

\* C9: unit_adj multiplies by the factor of the first character of units for
\* f, p, n, u, m, k, M, G, T, by 100 when units is exactly "%", and by 1 for
\* every other non-empty units, "%" followed by more characters included;
\* unit_adj(5, "mV") = 5000 and unit_adj(5, "%") = 500.
C9_PercentOnlyAlone ==
    (Returned("unit_adj") /\ ret.raised = "") =>
        /\ ret.val = DecMul(ret.number, IF ret.units = <<"%">> THEN Int2Dec(100)
                                        ELSE PrefixFactor(ret.units[1]))
        /\ (ret.number = Int2Dec(5) /\ ret.units = <<"m", "V">>) => ret.val = Int2Dec(5000)
        /\ (ret.number = Int2Dec(5) /\ ret.units = <<"%">>) => ret.val = Int2Dec(500)

C9_Witness ==
    /\ Returned("unit_adj") /\ ret.raised = ""
    /\ ret.units = <<"%", "V">> /\ ret.number = Int2Dec(5) /\ ret.val = Int2Dec(5)

\* a candidate matches prefix*suffix: it starts with the prefix and what
\* follows the prefix ends with the suffix
GlobMatch(x, prefix, suffix) ==
    /\ StartsWith(x, prefix)
    /\ EndsWith(SubSeq(x, Len(prefix) + 1, Len(x)), suffix)

\* C8: _wildcard_expand (must left at its default) returns the name alone if
\* it holds no '*' and is a candidate, the candidates matching prefix*suffix
\* in their order if it holds one '*', and nothing otherwise.
C8_WildcardMatches ==
    (Returned("_wildcard_expand") /\ ret.must) =>
        LET stars == Cardinality({i \in 1..Len(ret.name) : ret.name[i] = "*"})
            parts == Split(ret.name, "*")
        IN  ret.out =
              IF stars = 0
              THEN IF InSeq(ret.name, ret.possibles) THEN <<ret.name>> ELSE <<>>
              ELSE IF stars = 1
              THEN SelectSeq(ret.possibles, LAMBDA x : GlobMatch(x, parts[1], parts[2]))
              ELSE <<>>

(***************************************************************************)
(* The claims about the spec table, under SpecTable.                       *)
(***************************************************************************)
\* a typical limit: none, a number, or a number behind '<' or '>'
TypWellFormed(t) ==
    \/ Len(t) = 0
    \/ float_ok(t)
    \/ t[1] \in {"<", ">"} /\ float_ok(Tail(t))

\* six fields: name, title, limits that are numbers when present, units
RowWellFormed(f) ==
    /\ Len(f) = 6
    /\ Len(f[1]) > 0
    /\ Len(f[3]) = 0 \/ float_ok(f[3])
    /\ TypWellFormed(f[4])
    /\ Len(f[5]) = 0 \/ float_ok(f[5])
    /\ Len(f[6]) > 0

LineWellFormed(line) == StartsWith(line, <<"*">>) \/ RowWellFormed(Split(line, ","))

\* the typical corner specs settles on, where the configuration names one
TypicalCorner ==
    IF config.typical_corner = "" THEN config.corners[1] ELSE config.typical_corner
ConfigUsable ==
    /\ Len(config.corners) > 0
    /\ InSeq(TypicalCorner, config.corners)

\* the recorded values of a name at the requested corners, unit-scaled
ScaledValues(name, units) ==
    {unit_adj(TableGet(config.corners[i], name).d, units) :
        i \in {j \in 1..Len(config.corners) : TableGet(config.corners[j], name).found}}

HasBelow(vs, text) == \E v \in vs : DecLess(v, float(text))
HasAbove(vs, text) == \E v \in vs : DecLess(float(text), v)

\* a limit of the fields f is violated by the values vs: the least is below the
\* lower limit or a '>' typical limit, the greatest above the upper limit or a
\* '<' typical limit
LimitViolated(f, vs) ==
    \/ Len(f[3]) > 0 /\ HasBelow(vs, f[3])
    \/ Len(f[5]) > 0 /\ HasAbove(vs, f[5])
    \/ Len(f[4]) > 0 /\ f[4][1] = "<" /\ HasAbove(vs, Tail(f[4]))
    \/ Len(f[4]) > 0 /\ f[4][1] = ">" /\ HasBelow(vs, Tail(f[4]))

\* a limit of the fields f is compared with a value
LimitChecked(f, vs) ==
    /\ vs # {}
    /\ Len(f[3]) > 0 \/ Len(f[5]) > 0 \/ (Len(f[4]) > 0 /\ f[4][1] \in {"<", ">"})

\* specs returned the table of a project of one well-formed data line
OneRowReturned ==
    /\ Returned("specs")
    /\ Len(specfile) = 1
    /\ ~StartsWith(specfile[1], <<"*">>)
    /\ RowWellFormed(Split(specfile[1], ","))
    /\ ConfigUsable

RowFields == Split(specfile[1], ",")
RowValues == ScaledValues(RowFields[1], RowFields[6])

\* the project of the example: row n,T,0,,10,V, typical value 5, another 12
ExampleProject ==
    /\ specfile = <<Join(<<RowName, <<"T">>, <<"0">>, <<>>, <<"1", "0">>, <<"V">>>>, ",")>>
    /\ config.corners = <<"c1", "c2">> /\ config.typical_corner = "c1"
    /\ files["c1"] = <<<<RowName, <<"5">>>>>>
    /\ files["c2"] = <<<<RowName, <<"1", "2">>>>>>

\* C1: a well-formed row is flagged fail exactly when a present lower limit is
\* above the scaled minimum, a present upper limit below the scaled maximum, a
\* '<' typical limit below the scaled maximum or a '>' typical limit above the
\* scaled minimum; the example row is flagged fail.
C1_FailIffLimitViolated ==
    OneRowReturned =>
        /\ ret.out.raised = ""
        /\ Len(ret.out.rows) = 1
        /\ ret.out.rows[1].res = "F" <=> LimitViolated(RowFields, RowValues)
        /\ ExampleProject => ret.out.rows[1].res = "F"

C1_Witness ==
    /\ OneRowReturned /\ ExampleProject
    /\ ret.out.rows[1].res = "F"

\* C2 as stated: the flag has three distinct values, and a row with a checked
\* limit and none violated gets the one that is neither unchecked nor fail.
C2_ThreeValues ==
    OneRowReturned =>
        /\ LimitViolated(RowFields, RowValues) => ret.out.rows[1].res = "F"
        /\ ~LimitChecked(RowFields, RowValues) => ret.out.rows[1].res = "-"
        /\ (LimitChecked(RowFields, RowValues) /\ ~LimitViolated(RowFields, RowValues))
               => ret.out.rows[1].res \notin {"-", "F"}

\* C2: the flag is one of two values, 'F' whenever a check fails and '-'
\* otherwise: a row whose checked limits all hold gets '-', like a row with no
\* checked limit.
C2_TwoValues ==
    OneRowReturned =>
        /\ ret.out.rows[1].res \in {"-", "F"}
        /\ ret.out.rows[1].res =
               IF LimitViolated(RowFields, RowValues) THEN "F" ELSE "-"

C2_Witness ==
    /\ OneRowReturned
    /\ LimitChecked(RowFields, RowValues) /\ ~LimitViolated(RowFields, RowValues)
    /\ ret.out.rows[1].res = "-"

LeastOf(vs) == CHOOSE m \in vs : \A v \in vs : ~DecLess(v, m)
GreatestOf(vs) == CHOOSE m \in vs : \A v \in vs : ~DecLess(m, v)

\* how many requested corners hold a value for the name
Contributing(name) ==
    Cardinality({i \in 1..Len(config.corners) : TableGet(config.corners[i], name).found})

\* C5: a requested corner without a value for the row's name adds nothing to
\* the minimum and maximum, which are those of the recorded values alone, and
\* in 'all' mode the row has one column per requested corner, in the order
\* requested: blank where the corner has no value, its scaled value otherwise.
C5_MissingCornerIsBlank ==
    OneRowReturned =>
        LET cols == ret.out.rows[1].cols
            name == RowFields[1]
            units == RowFields[6]
        IN  /\ ret.ttype = "all" =>
                /\ Len(cols) = Len(config.corners)
                /\ \A i \in 1..Len(cols) :
                      cols[i] = IF TableGet(config.corners[i], name).found
                                THEN Some(unit_adj(TableGet(config.corners[i], name).d,
                                                   units))
                                ELSE None
            /\ ret.ttype = "mtm" =>
                /\ Len(cols) = 3
                /\ cols[1] = IF Contributing(name) > 1 THEN Some(LeastOf(RowValues))
                             ELSE None
                /\ cols[3] = IF Contributing(name) > 1 THEN Some(GreatestOf(RowValues))
                             ELSE None

C5_Witness ==
    /\ OneRowReturned /\ ret.ttype = "all"
    /\ config.corners = <<"c2", "c3", "c1">>
    /\ RowFields[6] = <<"m", "V">>
    /\ ret.out.rows[1].cols = <<Some(Int2Dec(12000)), None, Some(Int2Dec(5000))>>

MalformedLines == SelectSeq(specfile, LAMBDA line : ~LineWellFormed(line))
WellFormedLines == SelectSeq(specfile, LineWellFormed)

\* C7: specs skips every malformed line without aborting: it returns the table
\* whose rows are those of the well-formed lines, in their order.
C7_MalformedLinesSkipped ==
    (Returned("specs") /\ ConfigUsable) =>
        /\ ret.out.raised = ""
        /\ ret.out.rows =
              specs_lines(WellFormedLines, ret.ttype, config.corners, TypicalCorner,
                          [raised |-> "", rows |-> <<>>, warnings |-> <<>>]).rows

(***************************************************************************)
(* The claim about the spec store, under SpecStore.                        *)
(***************************************************************************)
\* C10: read_spec returns, for every corner and name, the value last written
\* there by write_spec and None where nothing was written (so a write changes
\* no other entry), and no spec file holds two lines for one name.
C10_ReadsLastWritten ==
    /\ \A c \in AllCorners, n \in StoreNames :
           read_spec(n, c) = written[_set_corner(c)][n]
    /\ \A c \in AllCorners : \A i, j \in 1..Len(files[c]) :
           files[c][i][1] = files[c][j][1] => i = j

C10_Witness ==
    /\ ret.op = "read_spec" /\ ret.out.found
    /\ nwrites >= 2
    /\ \E c \in AllCorners : Len(files[c]) = 2 /\ files[c][1][2] = <<"2", ".", "5">>
    /\ \E c \in AllCorners : written[c][<<"n">>] = Some(Int2Dec(-3))

====
